---- MODULE Spec2Model ----
(***************************************************************************)
(* join_csv.py: merge of an annual and a quarterly financial report of one *)
(* ticker into one chronologically ordered table, for one reporting        *)
(* standard or for both (MSFO on top, ten empty lines, RSBU below).        *)
(*                                                                         *)
(* Text that the code takes apart (period labels, cell values) is a        *)
(* sequence of one-character strings, so that the regular expressions and  *)
(* the replacements are computed character by character.  Row labels are   *)
(* only compared and looked up, and are atomic strings; the Cyrillic       *)
(* labels of the source are written in Latin transliteration.              *)
(*                                                                         *)
(* The second component of a sort key is the code's float times 100        *)
(* (0.25 -> 25, 0.55 -> 55, 1.0 -> 100), which keeps the order.            *)
(***************************************************************************)
EXTENDS Integers, Sequences, FiniteSets, TLC

VARIABLES
    pc,         \* where the run stands
    standard,   \* main: the mapped --standard argument
    fs,         \* the files of the working directory: path -> content
    locals,     \* main: the local names bound so far (annual_path, ...)
    stdout,     \* what the run has printed, one entry per print
    exitcode,   \* main's return value, -1 while it runs
    arg,        \* a function called on its own: its argument
    ret         \* a function called on its own: what it returned

vars == <<pc, standard, fs, locals, stdout, exitcode, arg, ret>>

----------------------------------------------------------------------------
(* Characters and text *)

Digits == {"0", "1", "2", "3", "4", "5", "6", "7", "8", "9"}

DigitVal(c) ==
    CASE c = "0" -> 0 [] c = "1" -> 1 [] c = "2" -> 2 [] c = "3" -> 3
      [] c = "4" -> 4 [] c = "5" -> 5 [] c = "6" -> 6 [] c = "7" -> 7
      [] c = "8" -> 8 [] c = "9" -> 9

\* int() of a text of digits
RECURSIVE int(_)
int(s) ==
    IF s = <<>> THEN 0
    ELSE 10 * int(SubSeq(s, 1, Len(s) - 1)) + DigitVal(s[Len(s)])

\* str.replace(old, new) for a one-character old
RECURSIVE replace(_, _, _)
replace(s, old, new) ==
    IF s = <<>> THEN <<>>
    ELSE (IF Head(s) = old THEN new ELSE <<Head(s)>>) \o replace(Tail(s), old, new)

Range(s) == {s[i] : i \in 1..Len(s)}

\* All sequences over S of length at most n
RECURSIVE SeqsUpTo(_, _)
SeqsUpTo(S, n) ==
    IF n = 0 THEN {<<>>}
    ELSE LET shorter == SeqsUpTo(S, n - 1)
         IN  shorter \cup {Append(s, x) : s \in shorter, x \in S}

\* those without a repeated element
DistinctSeqsUpTo(S, n) ==
    {s \in SeqsUpTo(S, n) : \A i, j \in 1..Len(s) : s[i] = s[j] => i = j}

----------------------------------------------------------------------------
(* Period labels: lines 11-71 *)

LTM == <<"L", "T", "M">>

\* ^20\d{2}
Has20dd(s) ==
    /\ Len(s) >= 4
    /\ s[1] = "2"
    /\ s[2] = "0"
    /\ s[3] \in Digits
    /\ s[4] \in Digits

is_year_column(col_name) ==
    Has20dd(col_name) /\ Len(col_name) = 4

is_quarter_column(col_name) ==
    /\ Has20dd(col_name)
    /\ Len(col_name) = 6
    /\ col_name[5] = "Q"
    /\ col_name[6] \in {"1", "2", "3", "4"}

is_half_year_column(col_name) ==
    /\ Has20dd(col_name)
    /\ Len(col_name) = 6
    /\ col_name[5] = "H"
    /\ col_name[6] \in {"1", "2"}

\* ^(20\d{2})[QH][1-4]$ : the pattern of get_year_from_period, and with the
\* letter and the digit captured the pattern of get_period_value
MatchesYearQH(s) ==
    /\ Has20dd(s)
    /\ Len(s) = 6
    /\ s[5] \in {"Q", "H"}
    /\ s[6] \in {"1", "2", "3", "4"}

None == <<"N", "o", "n", "e">>

get_year_from_period(period_col) ==
    IF MatchesYearQH(period_col) THEN SubSeq(period_col, 1, 4) ELSE None

get_period_value_Q4_times_025(period_col) ==
    IF is_year_column(period_col) THEN <<int(period_col), 100>>
    ELSE IF MatchesYearQH(period_col) THEN
        LET year == int(SubSeq(period_col, 1, 4))
            period_type == period_col[5]
            period_num == DigitVal(period_col[6])
        IN  IF period_type = "Q" THEN <<year, period_num * 25>>
            ELSE IF period_num = 1 THEN <<year, 55>> ELSE <<year, 95>>
    ELSE IF period_col = LTM THEN <<9999, 100>>
    ELSE <<0, 0>>

get_period_value(period_col) ==
    IF is_year_column(period_col) THEN <<int(period_col), 100>>
    ELSE IF MatchesYearQH(period_col) THEN
        LET year == int(SubSeq(period_col, 1, 4))
            period_type == period_col[5]
            period_num == DigitVal(period_col[6])
        IN  IF period_type = "Q" THEN
                IF period_num = 4 THEN <<year, 90>>
                ELSE <<year, period_num * 25>>
            ELSE \* period_type = "H"
                IF period_num = 1 THEN <<year, 55>>
                ELSE <<year, 95>>
    ELSE IF period_col = LTM THEN <<9999, 100>>
    ELSE <<0, 0>>

\* Python's order of two (year, rank) tuples
KeyLE(a, b) == a[1] < b[1] \/ (a[1] = b[1] /\ a[2] <= b[2])

\* sorted(all_columns, key=lambda col: period_values[col]); Python's sort is
\* stable: each element goes behind the earlier ones whose key is not larger.
unsorted(cols) == cols

RECURSIVE sorted(_)
sorted(cols) ==
    IF cols = <<>> THEN <<>>
    ELSE LET n == Len(cols)
             front == sorted(SubSeq(cols, 1, n - 1))
             x == cols[n]
             p == Cardinality({i \in 1..Len(front) :
                     KeyLE(get_period_value(front[i]), get_period_value(x))})
         IN  SubSeq(front, 1, p) \o <<x>> \o SubSeq(front, p + 1, Len(front))

\* list(OrderedDict.fromkeys(seq)): the first occurrence of each element
RECURSIVE fromkeys(_)
fromkeys(seq) ==
    IF seq = <<>> THEN <<>>
    ELSE LET n == Len(seq)
             front == fromkeys(SubSeq(seq, 1, n - 1))
         IN  IF seq[n] \in Range(front) THEN front ELSE Append(front, seq[n])

----------------------------------------------------------------------------
(* Half-year inference: lines 74-95 *)

\* year_quarters[year]: the quarter digits of the year, in column order
RECURSIVE year_quarters(_, _)
year_quarters(columns, year) ==
    IF columns = <<>> THEN <<>>
    ELSE LET col == columns[Len(columns)]
             front == year_quarters(SubSeq(columns, 1, Len(columns) - 1), year)
         IN  IF is_quarter_column(col) /\ get_year_from_period(col) = year
             THEN Append(front, col[6])
             ELSE front

quarter_years(columns) ==
    {get_year_from_period(columns[i]) :
        i \in {j \in 1..Len(columns) : is_quarter_column(columns[j])}}

\* sorted(quarters) == ['2', '4'] and len(quarters) == 2
is_half_year_pair_any_with_2_and_4(quarters) ==
    {"2", "4"} \subseteq Range(quarters)

is_half_year_pair(quarters) ==
    quarters = <<"2", "4">> \/ quarters = <<"4", "2">>

\* The mapping as a function from the labels to rename to their new labels
detect_and_convert_half_years(columns) ==
    LET years == {y \in quarter_years(columns) :
                     is_half_year_pair(year_quarters(columns, y))}
        keys == {y \o <<"Q", "2">> : y \in years} \cup {y \o <<"Q", "4">> : y \in years}
    IN  [k \in keys |-> SubSeq(k, 1, 4) \o (IF k[6] = "2" THEN <<"H", "1">> ELSE <<"H", "2">>)]

\* DataFrame.rename(columns=col_mapping), on the labels
rename_columns(columns, col_mapping) ==
    [i \in 1..Len(columns) |->
        IF columns[i] \in DOMAIN col_mapping THEN col_mapping[columns[i]] ELSE columns[i]]

----------------------------------------------------------------------------
(* Cell values: lines 98-132.  A cell is text, a number or missing (NaN);  *)
(* only text satisfies isinstance(value, str).                             *)

Text(s) == [kind |-> "str", text |-> s]
Number(s) == [kind |-> "float", text |-> s]
NaN == [kind |-> "nan", text |-> <<>>]

\* re.search(r'\d+,\d+', value)
has_digit_comma_digit(s) ==
    \E i \in 1..Len(s) :
        /\ i + 2 <= Len(s)
        /\ s[i] \in Digits
        /\ s[i + 1] = ","
        /\ s[i + 2] \in Digits

clean_value_test_before_strip(value) ==
    IF value.kind = "str" THEN
        LET stripped == replace(value.text, " ", <<>>)
        IN  IF has_digit_comma_digit(value.text)
            THEN Text(replace(stripped, ",", <<".">>))
            ELSE Text(stripped)
    ELSE value

clean_value(value) ==
    IF value.kind = "str" THEN
        LET stripped == replace(value.text, " ", <<>>)
        IN  IF has_digit_comma_digit(stripped)
            THEN Text(replace(stripped, ",", <<".">>))
            ELSE Text(stripped)
    ELSE value

\* (\d{2})\.(\d{2})\.(\d{4}) matched at the start of the text
convert_date_format(date_str) ==
    IF date_str.kind # "str" THEN date_str
    ELSE LET s == date_str.text
         IN  IF /\ Len(s) >= 10
                /\ \A i \in {1, 2, 4, 5, 7, 8, 9, 10} : s[i] \in Digits
                /\ s[3] = "."
                /\ s[6] = "."
             THEN Text(SubSeq(s, 7, 10) \o <<"-">> \o SubSeq(s, 4, 5)
                       \o <<"-">> \o SubSeq(s, 1, 2))
             ELSE date_str

----------------------------------------------------------------------------
(* Tables.  A DataFrame is its row labels (index), its column labels and   *)
(* its cells: cells[i][j] is the cell of row i in the j-th column.         *)
(* A downloaded document is the table pd.read_csv makes of it (parses), or *)
(* a text read_csv cannot parse, such as an empty response body.           *)

DataFrame(index, columns, cells) ==
    [parses |-> TRUE, index |-> index, columns |-> columns, cells |-> cells]

EmptyText == [parses |-> FALSE, index |-> <<>>, columns |-> <<>>, cells |-> <<>>]

\* position of the first occurrence of x in seq
IndexOf(seq, x) == CHOOSE i \in 1..Len(seq) : seq[i] = x /\ \A j \in 1..(i - 1) : seq[j] # x

Occurrences(seq, x) == Cardinality({i \in 1..Len(seq) : seq[i] = x})

\* Row labels of the source, transliterated
DateRow == "Data otcheta"                       \* "Дата отчета"

rename_map ==
    [k \in {"Operacionnyj denezhnyj potok, mlrd rub", "Dividendy/pribyl, %",
            "Chistye aktivy, mlrd rub", "Aktivy banka, mlrd rub",
            "Dividend, rub/akciju", "Dividend ap, rub/akciju",
            "Div dohod, ao, %", "Div dohod, ap, %", "Dohodnost FCF, %",
            "Dolg/EBITDA", "P/BV"} |->
        CASE k = "Operacionnyj denezhnyj potok, mlrd rub" -> "OCF, mlrd rub"
          [] k = "Dividendy/pribyl, %" -> "DPR, %"
          [] k = "Chistye aktivy, mlrd rub" -> "Kapital, mlrd rub"
          [] k = "Aktivy banka, mlrd rub" -> "Aktivy, mlrd rub"
          [] k = "Dividend, rub/akciju" -> "DPS, rub"
          [] k = "Dividend ap, rub/akciju" -> "P_DPS, rub"
          [] k = "Div dohod, ao, %" -> "DY, %"
          [] k = "Div dohod, ap, %" -> "P_DY, %"
          [] k = "Dohodnost FCF, %" -> "FCF/P, %"
          [] k = "Dolg/EBITDA" -> "ND/EBITDA"
          [] k = "P/BV" -> "P/B"]

\* rename_metrics, on the index: rename_map.get(idx, idx)
rename_metrics(index) ==
    [i \in 1..Len(index) |->
        IF index[i] \in DOMAIN rename_map THEN rename_map[index[i]] ELSE index[i]]

----------------------------------------------------------------------------
(* join_csv_files: lines 198-263 *)

\* all_metrics_ordered[metric] = None for each metric of the index, in order:
\* a new key goes to the end, a key already there keeps its place
RECURSIVE add_metrics(_, _)
add_metrics(ordered, index) ==
    IF index = <<>> THEN ordered
    ELSE add_metrics(IF Head(index) \in Range(ordered) THEN ordered
                     ELSE Append(ordered, Head(index)),
                     Tail(index))

all_metrics_ordered_quarterly_first(annual_index, quarterly_index) ==
    add_metrics(add_metrics(<<>>, quarterly_index), annual_index)

\* lines 211-224: the keys of all_metrics_ordered after both loops
all_metrics_ordered(annual_index, quarterly_index) ==
    add_metrics(add_metrics(<<>>, annual_index), quarterly_index)

\* lines 226-236
ordered_columns_of(annual_columns, quarterly_columns) ==
    fromkeys(sorted(annual_columns \o quarterly_columns))

\* df[col] written into a frame with another index: pandas aligns the column
\* on the row labels and leaves NaN where df has no such row.  This is the
\* cell the row labelled metric gets; j is the position of the column in df.
aligned_cell(df, j, metric) ==
    IF metric \in Range(df.index)
    THEN df.cells[IndexOf(df.index, metric)][j]
    ELSE NaN

Raise(what) == [raised |-> TRUE, error |-> what, df |-> EmptyText]
Return(df) == [raised |-> FALSE, error |-> "", df |-> df]

\* lines 238-245: which frame fills column col
column_source_quarterly_first(col, annual_columns, quarterly_columns) ==
    IF col \in Range(quarterly_columns) THEN "quarterly" ELSE "annual"

column_source(col, annual_columns, quarterly_columns) ==
    IF col \in Range(annual_columns) THEN "annual" ELSE "quarterly"

\* lines 238-257 on the frames read, with the renamed quarterly labels, the
\* merged index and the ordered columns already computed
fill_and_normalise(annual_df, quarterly_df, quarterly_columns, index, ordered_columns) ==
    LET source(j) == column_source(ordered_columns[j], annual_df.columns, quarterly_columns)
        \* quarterly_df[col] is a frame, not a column, when the renaming made
        \* two columns of one label: assigning it raises ValueError
        ambiguous == \E j \in 1..Len(ordered_columns) :
                        /\ source(j) = "quarterly"
                        /\ Occurrences(quarterly_columns, ordered_columns[j]) > 1
        filled(i, j) ==
            IF source(j) = "annual"
            THEN aligned_cell(annual_df, IndexOf(annual_df.columns, ordered_columns[j]),
                              index[i])
            ELSE aligned_cell(quarterly_df, IndexOf(quarterly_columns, ordered_columns[j]),
                              index[i])
        cleaned(i, j) == clean_value(filled(i, j))
        dated(i, j) ==
            IF index[i] = DateRow THEN convert_date_format(cleaned(i, j)) ELSE cleaned(i, j)
    IN  IF ambiguous THEN Raise("ValueError")
        ELSE Return(DataFrame(rename_metrics(index), ordered_columns,
                 [i \in 1..Len(index) |-> [j \in 1..Len(ordered_columns) |-> dated(i, j)]]))

join_csv_files(annual_text, quarterly_text) ==
    IF ~annual_text.parses \/ ~quarterly_text.parses
    THEN Raise("EmptyDataError")                      \* pd.read_csv, lines 201-202
    ELSE
        \* lines 205-209: the renamed frame keeps its cells, column by column
        LET quarterly_columns ==
                rename_columns(quarterly_text.columns,
                               detect_and_convert_half_years(quarterly_text.columns))
        IN  fill_and_normalise(annual_text, quarterly_text, quarterly_columns,
                all_metrics_ordered(annual_text.index, quarterly_text.index),
                ordered_columns_of(annual_text.columns, quarterly_columns))

----------------------------------------------------------------------------
(* combine_standards, lines 281-302: the combined frame of two joined ones *)

EMPTY_LINES == 10

\* DataFrame(index=df.index, columns=ordered_columns), then for each column
\* df has: combined[col] = df[col] (the two indexes are the same object)
reindex_columns(df, ordered_columns) ==
    [i \in 1..Len(df.index) |->
        [j \in 1..Len(ordered_columns) |->
            IF ordered_columns[j] \in Range(df.columns)
            THEN df.cells[i][IndexOf(df.columns, ordered_columns[j])]
            ELSE NaN]]

empty_rows_index_of(n) == [i \in 1..n |-> "empty_" \o ToString(i - 1)]

empty_rows_index_nine == empty_rows_index_of(EMPTY_LINES - 1)

empty_rows_index == empty_rows_index_of(EMPTY_LINES)

combined_frame(msfo_df, rsbu_df) ==
    LET ordered_columns == ordered_columns_of(msfo_df.columns, rsbu_df.columns)
        empty_rows == [i \in 1..Len(empty_rows_index) |->
                          [j \in 1..Len(ordered_columns) |-> NaN]]
    IN  DataFrame(msfo_df.index \o empty_rows_index \o rsbu_df.index,
                  ordered_columns,
                  reindex_columns(msfo_df, ordered_columns) \o empty_rows
                      \o reindex_columns(rsbu_df, ordered_columns))

----------------------------------------------------------------------------
(* The documents the server may send *)

MaxAnnualCols == 2
MaxQuarterlyCols == 2
MaxRows == 1

Y2021 == <<"2", "0", "2", "1">>
Y2022 == <<"2", "0", "2", "2">>
Q(year, n) == year \o <<"Q", n>>
H(year, n) == year \o <<"H", n>>

\* A run for one standard draws its documents from the larger label sets; a
\* run for both standards, which holds four documents at once, from the
\* smaller ones.
AnnualLabels == {Y2021, Y2022, LTM}
QuarterlyLabels == {Q(Y2022, "1"), Q(Y2022, "2"), Q(Y2022, "4"), LTM}
RowLabels == {"Vyruchka, mlrd rub", "P/BV", DateRow}

AnnualLabelsBoth == {Y2022}
QuarterlyLabelsBoth == {Q(Y2022, "2"), Q(Y2022, "4")}
RowLabelsBoth == {"Vyruchka, mlrd rub", "P/BV"}

AnnualColumns == DistinctSeqsUpTo(AnnualLabels, MaxAnnualCols)
QuarterlyColumns == DistinctSeqsUpTo(QuarterlyLabels, MaxQuarterlyCols)
Indexes == DistinctSeqsUpTo(RowLabels, MaxRows) \ {<<>>}

AnnualColumnsBoth == DistinctSeqsUpTo(AnnualLabelsBoth, MaxAnnualCols)
QuarterlyColumnsBoth == DistinctSeqsUpTo(QuarterlyLabelsBoth, MaxQuarterlyCols)
IndexesBoth == DistinctSeqsUpTo(RowLabelsBoth, MaxRows) \ {<<>>}

CellPool ==
    << Text(<<"1", " ", "2", "3", "4", ",", "5", "6">>),
       Text(<<"N", "/", "A", ",", " ", "x">>),
       Text(<<"3", "1", ".", "1", "2", ".", "2", "0", "2", "2">>),
       NaN,
       Number(<<"1", "2">>) >>

\* The table of a document: its cells are fixed by their place and by salt,
\* which differs between the four documents of a ticker
Document(index, columns, salt) ==
    DataFrame(index, columns,
        [i \in 1..Len(index) |->
            [j \in 1..Len(columns) |-> CellPool[((i + j + salt) % Len(CellPool)) + 1]]])

salt_of(std, kind) ==
    (IF std = "MSFO" THEN 0 ELSE 2) + (IF kind = "annual" THEN 0 ELSE 1)

Documents(indexes, columns, salt) ==
    {Document(index, cols, salt) : index \in indexes, cols \in columns} \cup {EmptyText}

AnnualTexts(std) ==
    IF standard = "BOTH"
    THEN Documents(IndexesBoth, AnnualColumnsBoth, salt_of(std, "annual"))
    ELSE Documents(Indexes, AnnualColumns, salt_of(std, "annual"))

QuarterlyTexts(std) ==
    IF standard = "BOTH"
    THEN Documents(IndexesBoth, QuarterlyColumnsBoth, salt_of(std, "quarterly"))
    ELSE Documents(Indexes, QuarterlyColumns, salt_of(std, "quarterly"))

Statuses == {200, 404}

----------------------------------------------------------------------------
(* Files, lines 185-195 and 313-321 *)

ticker == "T"

annual_path_of(std) == ticker \o "_" \o std \o "_annual.csv"
quarterly_path_of(std) == ticker \o "_" \o std \o "_quarterly.csv"

\* display_standard_map; "MSFO" and "RSBU" stand for the Cyrillic names
output_path_of(std) ==
    IF std = "BOTH" THEN ticker \o "_COMBINED.tsv" ELSE ticker \o "_" \o std \o ".tsv"

write(files, path, content) ==
    [p \in (DOMAIN files) \cup {path} |-> IF p = path THEN content ELSE files[p]]

remove(files, paths) ==
    [p \in (DOMAIN files) \ paths |-> files[p]]

cleanup_temp_files(files, annual_path, quarterly_path) ==
    remove(files, {annual_path, quarterly_path})

bind(frame, name, value) ==
    [n \in (DOMAIN frame) \cup {name} |-> IF n = name THEN value ELSE frame[n]]

NoFiles == [p \in {} |-> EmptyText]
NoLocals == [n \in {} |-> ""]

----------------------------------------------------------------------------
(* main, lines 324-378, and combine_standards, lines 266-310 *)

\* download_data(ticker, std) called at `at`; its two results are bound to
\* the names a and q and the run goes on at `to`.  An exception leaves the
\* frame named by `unwound` to main's handler.
download_data(at, std, prints, a, q, to, unwound) ==
    /\ pc = at
    /\ \E annual_status \in Statuses :
        IF annual_status # 200 THEN
            /\ stdout' = stdout \o prints \o <<"Downloading " \o std \o " annual">>
            /\ locals' = bind(unwound, "e",
                   "Failed to download annual data: HTTP " \o ToString(annual_status))
            /\ pc' = "except"
            /\ UNCHANGED fs
        ELSE \E quarterly_status \in Statuses :
            IF quarterly_status # 200 THEN
                /\ stdout' = stdout \o prints \o <<"Downloading " \o std \o " annual",
                                                   "Downloading " \o std \o " quarterly">>
                /\ locals' = bind(unwound, "e",
                       "Failed to download quarterly data: HTTP " \o ToString(quarterly_status))
                /\ pc' = "except"
                /\ UNCHANGED fs
            ELSE \E annual_text \in AnnualTexts(std), quarterly_text \in QuarterlyTexts(std) :
                /\ stdout' = stdout \o prints \o <<"Downloading " \o std \o " annual",
                                                   "Downloading " \o std \o " quarterly">>
                /\ fs' = write(write(fs, annual_path_of(std), annual_text),
                               quarterly_path_of(std), quarterly_text)
                /\ locals' = bind(bind(locals, a, annual_path_of(std)),
                                  q, quarterly_path_of(std))
                /\ pc' = to
    /\ UNCHANGED <<standard, exitcode, arg, ret>>

\* join_csv_files(locals[a], locals[q], output_path) called at `at`; the
\* frame it returns is bound to `df` when df is not ""
call_join_csv_files(at, a, q, output_path, df, to, unwound) ==
    /\ pc = at
    /\ \E r \in {join_csv_files(fs[locals[a]], fs[locals[q]])} :
           IF r.raised THEN
               /\ locals' = bind(unwound, "e", r.error)
               /\ pc' = "except"
               /\ UNCHANGED <<fs, stdout>>
           ELSE
               /\ fs' = write(fs, output_path, r.df)
               /\ stdout' = Append(stdout, "Joined data saved to " \o output_path)
               /\ locals' = IF df = "" THEN locals ELSE bind(locals, df, r.df)
               /\ pc' = to
    /\ UNCHANGED <<standard, exitcode, arg, ret>>

\* line 367
DownloadSingle ==
    /\ standard # "BOTH"
    /\ download_data("main", standard, <<>>, "annual_path", "quarterly_path",
                     "join", locals)

\* line 368
JoinSingle ==
    call_join_csv_files("join", "annual_path", "quarterly_path",
                        output_path_of(standard), "", "cleanup", locals)

\* line 369 and the return of line 378
CleanupSingle ==
    /\ pc = "cleanup"
    /\ fs' = cleanup_temp_files(fs, locals["annual_path"], locals["quarterly_path"])
    /\ pc' = "done"
    /\ exitcode' = 0
    /\ UNCHANGED <<standard, locals, stdout, arg, ret>>

\* lines 364, 272-273
DownloadMSFO ==
    /\ standard = "BOTH"
    /\ download_data("main", "MSFO", <<"Processing MSFO data...">>,
                     "msfo_annual_path", "msfo_quarterly_path", "join_msfo", NoLocals)

\* line 274
JoinMSFO ==
    call_join_csv_files("join_msfo", "msfo_annual_path", "msfo_quarterly_path",
                        output_path_of("MSFO"), "msfo_df", "download_rsbu", NoLocals)

\* lines 277-278
DownloadRSBU ==
    download_data("download_rsbu", "RSBU", <<"Processing RSBU data...">>,
                  "rsbu_annual_path", "rsbu_quarterly_path", "join_rsbu", NoLocals)

\* line 279
JoinRSBU ==
    call_join_csv_files("join_rsbu", "rsbu_annual_path", "rsbu_quarterly_path",
                        output_path_of("RSBU"), "rsbu_df", "combine", NoLocals)

\* lines 281-310 and the return of line 378
Combine ==
    /\ pc = "combine"
    /\ LET combined_df == combined_frame(locals["msfo_df"], locals["rsbu_df"])
           written == write(fs, output_path_of("BOTH"), combined_df)
       IN  fs' = cleanup_temp_files(
                     cleanup_temp_files(written, locals["msfo_annual_path"],
                                        locals["msfo_quarterly_path"]),
                     locals["rsbu_annual_path"], locals["rsbu_quarterly_path"])
    /\ stdout' = Append(stdout, "Combined data (MSFO + RSBU) saved to "
                                    \o output_path_of("BOTH"))
    /\ locals' = NoLocals
    /\ pc' = "done"
    /\ exitcode' = 0
    /\ UNCHANGED <<standard, arg, ret>>

\* lines 371-376
Except ==
    /\ pc = "except"
    /\ stdout' = Append(stdout, "Error: " \o locals["e"])
    /\ fs' = IF /\ standard # "BOTH"
                /\ "annual_path" \in DOMAIN locals
                /\ "quarterly_path" \in DOMAIN locals
             THEN cleanup_temp_files(fs, locals["annual_path"], locals["quarterly_path"])
             ELSE fs
    /\ pc' = "done"
    /\ exitcode' = 1
    /\ UNCHANGED <<standard, locals, arg, ret>>

Init ==
    /\ pc = "main"
    /\ standard \in {"MSFO", "RSBU", "BOTH"}
    /\ fs = NoFiles
    /\ locals = NoLocals
    /\ stdout = <<>>
    /\ exitcode = -1
    /\ arg = <<>>
    /\ ret = <<>>

Next ==
    \/ DownloadSingle
    \/ JoinSingle
    \/ CleanupSingle
    \/ DownloadMSFO
    \/ JoinMSFO
    \/ DownloadRSBU
    \/ JoinRSBU
    \/ Combine
    \/ Except

Spec == Init /\ [][Next]_vars

----------------------------------------------------------------------------
(* The functions on their own: one call of a function on an argument drawn *)
(* from a bounded set, with nothing of main running.                       *)

MaxSuffixLen == 2
MaxHalfCols == 4
MaxTextLen == 4
MaxIndexLen == 3

Idle ==
    /\ standard = ""
    /\ fs = NoFiles
    /\ locals = NoLocals
    /\ stdout = <<>>
    /\ exitcode = -1

Y1999 == <<"1", "9", "9", "9">>

\* Labels of every shape: a year or the beginning of one, or of LTM, and up
\* to MaxSuffixLen more characters
PeriodLabels ==
    {prefix \o suffix :
        prefix \in {Y2021, Y2022, Y1999, <<"2", "0", "2">>, <<"L", "T">>, <<>>},
        suffix \in SeqsUpTo({"Q", "H", "M", "1", "2", "3", "4", "5"}, MaxSuffixLen)}

call_get_period_value ==
    /\ pc = "call"
    /\ ret' = get_period_value(arg)
    /\ pc' = "return"
    /\ UNCHANGED <<standard, fs, locals, stdout, exitcode, arg>>

InitPeriod == Idle /\ pc = "call" /\ arg \in PeriodLabels /\ ret = <<>>
NextPeriod == call_get_period_value
SpecPeriod == InitPeriod /\ [][NextPeriod]_vars

\* Column lists of a quarterly frame: read_csv leaves no label twice
HalfLabels ==
    {Q(Y2021, "2"), Q(Y2021, "4"), Q(Y2022, "1"), Q(Y2022, "2"), Q(Y2022, "3"),
     Q(Y2022, "4"), H(Y2022, "1"), Y2022}

\* lines 204-209: the mapping, and the columns of the renamed frame
call_detect_and_convert_half_years ==
    /\ pc = "call"
    /\ \E col_mapping \in {detect_and_convert_half_years(arg)} :
          ret' = [col_mapping |-> col_mapping,
                  columns |-> rename_columns(arg, col_mapping)]
    /\ pc' = "return"
    /\ UNCHANGED <<standard, fs, locals, stdout, exitcode, arg>>

InitHalf ==
    Idle /\ pc = "call" /\ arg \in DistinctSeqsUpTo(HalfLabels, MaxHalfCols) /\ ret = <<>>
NextHalf == call_detect_and_convert_half_years
SpecHalf == InitHalf /\ [][NextHalf]_vars

CellValues ==
    {Text(s) : s \in SeqsUpTo({" ", ",", "1", "a"}, MaxTextLen)}
        \cup {NaN, Number(<<"1", "2">>)}

\* clean_value applied to the argument, then to its own result: ret is the
\* sequence of the values returned so far
call_clean_value ==
    /\ pc = "call"
    /\ ret' = Append(ret, clean_value(IF ret = <<>> THEN arg ELSE ret[Len(ret)]))
    /\ pc' = IF Len(ret) = 0 THEN "call" ELSE "return"
    /\ UNCHANGED <<standard, fs, locals, stdout, exitcode, arg>>

InitClean == Idle /\ pc = "call" /\ arg \in CellValues /\ ret = <<>>
NextClean == call_clean_value
SpecClean == InitClean /\ [][NextClean]_vars

\* Row labels of the two frames; an index may hold a label twice
IndexLabels == {"Vyruchka, mlrd rub", "P/BV", DateRow}

\* lines 211-224
call_all_metrics_ordered ==
    /\ pc = "call"
    /\ ret' = all_metrics_ordered(arg.annual, arg.quarterly)
    /\ pc' = "return"
    /\ UNCHANGED <<standard, fs, locals, stdout, exitcode, arg>>

InitRows ==
    /\ Idle
    /\ pc = "call"
    /\ arg \in [annual : SeqsUpTo(IndexLabels, MaxIndexLen),
                quarterly : SeqsUpTo(IndexLabels, MaxIndexLen)]
    /\ ret = <<>>
NextRows == call_all_metrics_ordered
SpecRows == InitRows /\ [][NextRows]_vars

----------------------------------------------------------------------------
(* Properties of a merge.  While the two staged files of a standard and    *)
(* its joined file all exist, the joined file is the result of             *)
(* join_csv_files on the two staged ones.                                  *)

Standards == {"MSFO", "RSBU"}
TempPaths == {annual_path_of(std) : std \in Standards}
                 \cup {quarterly_path_of(std) : std \in Standards}
OutputPaths == {output_path_of(std) : std \in Standards \cup {"BOTH"}}

Joined(std) ==
    {annual_path_of(std), quarterly_path_of(std), output_path_of(std)} \subseteq DOMAIN fs

Years == {Y2021, Y2022}

\* the quarters the quarterly source has for a year
QuartersOf(columns, year) == {n \in {"1", "2", "3", "4"} : Q(year, n) \in Range(columns)}

Before(columns, x, y) ==
    \E i, j \in 1..Len(columns) : i < j /\ columns[i] = x /\ columns[j] = y

\* C1 as claimed: when Q4 is the only quarter column of a year in the
\* quarterly source and the annual source has the year, the merged table
\* has no Q4 column for it.
C1_LoneQ4Dropped ==
    \A std \in Standards : Joined(std) =>
        LET a == fs[annual_path_of(std)]
            q == fs[quarterly_path_of(std)]
            m == fs[output_path_of(std)]
        IN  \A year \in Years :
                (QuartersOf(q.columns, year) = {"4"} /\ year \in Range(a.columns))
                    => Q(year, "4") \notin Range(m.columns)

\* C1 as amended: the merged table has a Q4 column of a year exactly when a
\* source has one that half-year inference does not relabel; a Q4 column
\* that is the only quarter of a year the annual source has is kept and
\* stands before the year column: annual {2022} with quarterly {2022Q4}
\* gives 2022Q4, 2022.
C1_LoneQ4Kept ==
    \A std \in Standards : Joined(std) =>
        LET a == fs[annual_path_of(std)]
            q == fs[quarterly_path_of(std)]
            m == fs[output_path_of(std)]
        IN  /\ \A year \in Years :
                /\ Q(year, "4") \in Range(m.columns)
                     <=> \/ Q(year, "4") \in Range(a.columns)
                         \/ /\ Q(year, "4") \in Range(q.columns)
                            /\ QuartersOf(q.columns, year) # {"2", "4"}
                /\ (QuartersOf(q.columns, year) = {"4"} /\ year \in Range(a.columns))
                     => Before(m.columns, Q(year, "4"), year)
            /\ (a.columns = <<Y2022>> /\ q.columns = <<Q(Y2022, "4")>>)
                 => m.columns = <<Q(Y2022, "4"), Y2022>>

C1_Witness ==
    \E std \in Standards :
        /\ Joined(std)
        /\ fs[annual_path_of(std)].columns = <<Y2022>>
        /\ fs[quarterly_path_of(std)].columns = <<Q(Y2022, "4")>>

\* The recognised labels of the two years, in the order the specification
\* gives them: within a year Q1 < Q2 < H1 < Q3 < Q4 < H2 < Year, a smaller
\* year first, LTM last.
ChronologyOf(year) ==
    << Q(year, "1"), Q(year, "2"), H(year, "1"), Q(year, "3"), Q(year, "4"),
       H(year, "2"), year >>
Chronology == ChronologyOf(Y2021) \o ChronologyOf(Y2022) \o <<LTM>>

ChronologyRank == [label \in Range(Chronology) |-> IndexOf(Chronology, label)]

InOrder(columns) ==
    \E keys \in {[i \in 1..Len(columns) |-> get_period_value(columns[i])]} :
        /\ Cardinality(Range(columns)) = Len(columns)
        /\ \A i, j \in 1..Len(columns) : i < j =>
              /\ KeyLE(keys[i], keys[j])
              /\ (columns[i] \in DOMAIN ChronologyRank /\ columns[j] \in DOMAIN ChronologyRank)
                   => ChronologyRank[columns[i]] < ChronologyRank[columns[j]]

\* C2: the columns of every table written, by join_csv_files and by
\* combine_standards, are in non-decreasing get_period_value order, which is
\* the order of the years, within a year Q1 < Q2 < H1 < Q3 < Q4 < H2 < Year,
\* and LTM last; no label stands twice.
C2_ColumnsInOrder ==
    \A path \in OutputPaths \cap DOMAIN fs : InOrder(fs[path].columns)

C2_Witness ==
    /\ output_path_of("BOTH") \in DOMAIN fs
    /\ fs[output_path_of("BOTH")].columns
         = <<H(Y2022, "1"), Q(Y2022, "4"), H(Y2022, "2"), Y2022>>
    /\ fs[output_path_of("MSFO")].columns = <<Q(Y2022, "4"), Y2022>>

\* the cell a value of a source becomes in the row labelled metric
Normalised(metric, value) ==
    IF metric = DateRow THEN convert_date_format(clean_value(value)) ELSE clean_value(value)

\* the cell of the row labelled metric in column j of a source frame, NaN
\* when the frame has no such row
SourceCell(df, metric, j) ==
    IF metric \in Range(df.index)
    THEN Normalised(metric, df.cells[IndexOf(df.index, metric)][j])
    ELSE NaN

\* C7: each column of the merged table is the annual source's column of that
\* label when there is one, also when the quarterly source has the label
\* too, and otherwise the relabelled quarterly source's column; a row the
\* owning source lacks has missing cells there.
C7_CellsFromOwner ==
    \A std \in Standards : Joined(std) =>
        \E a \in {fs[annual_path_of(std)]}, q \in {fs[quarterly_path_of(std)]},
           m \in {fs[output_path_of(std)]} :
            \E relabelled \in {rename_columns(q.columns,
                                   detect_and_convert_half_years(q.columns))} :
                \A metric \in Range(a.index) \cup Range(q.index) :
                    \E i \in 1..Len(m.index) :
                        /\ m.index[i] = rename_metrics(<<metric>>)[1]
                        /\ \A j \in 1..Len(m.columns) :
                              m.cells[i][j] =
                                  IF m.columns[j] \in Range(a.columns)
                                  THEN SourceCell(a, metric, IndexOf(a.columns, m.columns[j]))
                                  ELSE SourceCell(q, metric, IndexOf(relabelled, m.columns[j]))

\* a label in both sources with different cells, and a row of each source
\* that the other lacks
C7_Witness ==
    \E std \in Standards :
        /\ Joined(std)
        /\ LET a == fs[annual_path_of(std)]
               q == fs[quarterly_path_of(std)]
           IN  /\ LTM \in Range(a.columns) \cap Range(q.columns)
               /\ Len(q.columns) = 2
               /\ Range(a.index) \cap Range(q.index) = {}
               /\ \E i \in 1..Len(fs[output_path_of(std)].index) :
                     \E j \in 1..Len(fs[output_path_of(std)].columns) :
                         fs[output_path_of(std)].cells[i][j] # NaN

\* C8: the combined document is the rows of the MSFO table, then exactly 10
\* rows with no cell populated, then the rows of the RSBU table; a data row
\* has its own table's cell in each column that table has and a missing
\* cell in the others.
RowsOf(c, from, df) ==
    \A i \in 1..Len(df.index) :
        /\ c.index[from + i] = df.index[i]
        /\ \A j \in 1..Len(c.columns) :
              c.cells[from + i][j] =
                  IF c.columns[j] \in Range(df.columns)
                  THEN df.cells[i][IndexOf(df.columns, c.columns[j])]
                  ELSE NaN

C8_CombinedDocument ==
    output_path_of("BOTH") \in DOMAIN fs =>
        LET c == fs[output_path_of("BOTH")]
            msfo == fs[output_path_of("MSFO")]
            rsbu == fs[output_path_of("RSBU")]
        IN  /\ Len(c.index) = Len(msfo.index) + 10 + Len(rsbu.index)
            /\ Len(c.cells) = Len(c.index)
            /\ Range(c.columns) = Range(msfo.columns) \cup Range(rsbu.columns)
            /\ RowsOf(c, 0, msfo)
            /\ \A i \in 1..10 : \A j \in 1..Len(c.columns) :
                  c.cells[Len(msfo.index) + i][j] = NaN
            /\ RowsOf(c, Len(msfo.index) + 10, rsbu)

C8_Witness ==
    /\ output_path_of("BOTH") \in DOMAIN fs
    /\ LET msfo == fs[output_path_of("MSFO")]
           rsbu == fs[output_path_of("RSBU")]
       IN  /\ Len(msfo.index) = 2
           /\ Len(rsbu.index) = 2
           /\ Range(msfo.columns) \ Range(rsbu.columns) # {}
           /\ Range(rsbu.columns) \ Range(msfo.columns) # {}

----------------------------------------------------------------------------
(* Properties of a run of main *)

RetrievalErrors ==
    {"Failed to download " \o kind \o " data: HTTP " \o ToString(status) :
        kind \in {"annual", "quarterly"}, status \in Statuses \ {200}}

\* C3 as claimed: when main returns 1, the temporary files staged by
\* download_data have been removed.
C3_NoTempFileAfterFailure ==
    (pc = "done" /\ exitcode = 1) => TempPaths \cap DOMAIN fs = {}

\* C4 as claimed: a run in which a retrieval failed has executed no merge
\* and written no merged file.
C4_NoMergeWhenRetrievalFails ==
    (pc = "done" /\ "e" \in DOMAIN locals /\ locals["e"] \in RetrievalErrors) =>
        /\ OutputPaths \cap DOMAIN fs = {}
        /\ \A i \in 1..Len(stdout) :
              stdout[i] \notin {"Joined data saved to " \o path : path \in OutputPaths}

----------------------------------------------------------------------------
(* Properties of the functions on their own *)

\* The four shapes of the specification
Is20dd(label, len) ==
    /\ Len(label) = len
    /\ label[1] = "2"
    /\ label[2] = "0"
    /\ label[3] \in Digits
    /\ label[4] \in Digits
IsYearShape(label) == Is20dd(label, 4)
IsQuarterShape(label) ==
    Is20dd(label, 6) /\ label[5] = "Q" /\ label[6] \in {"1", "2", "3", "4"}
IsHalfYearShape(label) ==
    Is20dd(label, 6) /\ label[5] = "H" /\ label[6] \in {"1", "2"}
IsRecognised(label) ==
    IsYearShape(label) \/ IsQuarterShape(label) \/ IsHalfYearShape(label) \/ label = LTM

\* C6 as claimed: a label of none of the four shapes (2022H3, 1999, 2022Q5)
\* gets the sort key (0, 0).
C6_UnknownIsZero ==
    (pc = "return" /\ ~IsRecognised(arg)) => ret = <<0, 0>>

\* C5: the mapping renames YQ2 to YH1 and YQ4 to YH2 exactly for the years
\* whose quarters are Q2 and Q4 and no other; every other label keeps its
\* name.
C5_HalfYearInference ==
    pc = "return" =>
        /\ \A year \in Years :
              IF QuartersOf(arg, year) = {"2", "4"}
              THEN /\ {Q(year, "2"), Q(year, "4")} \subseteq DOMAIN ret.col_mapping
                   /\ ret.col_mapping[Q(year, "2")] = H(year, "1")
                   /\ ret.col_mapping[Q(year, "4")] = H(year, "2")
              ELSE \A n \in {"1", "2", "3", "4"} : Q(year, n) \notin DOMAIN ret.col_mapping
        /\ DOMAIN ret.col_mapping \subseteq {Q(y, n) : y \in Years, n \in {"2", "4"}}
        /\ Len(ret.columns) = Len(arg)
        /\ \A i \in 1..Len(arg) :
              ret.columns[i] =
                  IF \E year \in Years :
                        /\ QuartersOf(arg, year) = {"2", "4"}
                        /\ arg[i] \in {Q(year, "2"), Q(year, "4")}
                  THEN H(SubSeq(arg[i], 1, 4), IF arg[i][6] = "2" THEN "1" ELSE "2")
                  ELSE arg[i]

\* one year renamed beside a year with Q1, Q2 and Q4, which is not
C5_Witness ==
    /\ pc = "return"
    /\ QuartersOf(arg, Y2021) = {"2", "4"}
    /\ QuartersOf(arg, Y2022) = {"1", "2"}
    /\ DOMAIN ret.col_mapping = {Q(Y2021, "2"), Q(Y2021, "4")}

\* text without its spaces
RECURSIVE WithoutSpaces(_)
WithoutSpaces(s) ==
    IF s = <<>> THEN <<>>
    ELSE IF Head(s) = " " THEN WithoutSpaces(Tail(s))
    ELSE <<Head(s)>> \o WithoutSpaces(Tail(s))

\* C9: clean_value twice is clean_value once; of a text it returns the text
\* without its spaces, with every comma made a period when that text holds
\* a digit, a comma and a digit in a row, and with its commas kept when not;
\* any other value it returns as it is.
C9_CleanIdempotent ==
    /\ Len(ret) >= 1 =>
          IF arg.kind = "str" THEN
              LET t == WithoutSpaces(arg.text)
                  numeric == \E i \in 1..(Len(t) - 2) :
                                t[i] \in Digits /\ t[i + 1] = "," /\ t[i + 2] \in Digits
              IN  /\ ret[1].kind = "str"
                  /\ Len(ret[1].text) = Len(t)
                  /\ \A i \in 1..Len(t) :
                        ret[1].text[i] = IF numeric /\ t[i] = "," THEN "." ELSE t[i]
          ELSE ret[1] = arg
    /\ Len(ret) = 2 => ret[2] = ret[1]

\* "1, 1": the pattern shows only once the space is gone
C9_Witness ==
    /\ Len(ret) = 2
    /\ arg = Text(<<"1", ",", " ", "1">>)
    /\ ret[2] = Text(<<"1", ".", "1">>)

\* C10: the merged row sequence holds every label of either index once: the
\* annual labels in the order of their first occurrences, then the labels
\* only the quarterly index has, in the order of theirs.
FirstBefore(seq, x, y) == IndexOf(seq, x) < IndexOf(seq, y)

C10_MergedRows ==
    pc = "return" =>
        /\ Range(ret) = Range(arg.annual) \cup Range(arg.quarterly)
        /\ \A i, j \in 1..Len(ret) : ret[i] = ret[j] => i = j
        /\ \A x, y \in Range(ret) : x # y =>
              (FirstBefore(ret, x, y) <=>
                  IF x \in Range(arg.annual) /\ y \in Range(arg.annual)
                  THEN FirstBefore(arg.annual, x, y)
                  ELSE IF x \in Range(arg.annual) THEN TRUE
                  ELSE IF y \in Range(arg.annual) THEN FALSE
                  ELSE FirstBefore(arg.quarterly, x, y))

C10_Witness ==
    /\ pc = "return"
    /\ arg.annual = <<"P/BV", "Vyruchka, mlrd rub">>
    /\ arg.quarterly = <<DateRow, "Vyruchka, mlrd rub", DateRow>>
    /\ ret = <<"P/BV", "Vyruchka, mlrd rub", DateRow>>

====
